---- MODULE Spec2Model ----
(***************************************************************************)
(* Model of valhalla's mjolnir SpeedAssigner (src/mjolnir/speed_assigner.h) *)
(*                                                                         *)
(*  - the json configuration document and the SpeedTable parser,           *)
(*  - the constructor, run once under the function-local static of         *)
(*    GetInstance, one loop iteration per step,                            *)
(*  - FromConfig (the configured speeds) and the heuristic of UpdateSpeed, *)
(*  - workers that call GetInstance and UpdateSpeed concurrently.          *)
(***************************************************************************)
EXTENDS Integers, Sequences, FiniteSets, TLC

VARIABLES guard, config_file, frame, tables, escaped, pc, edge, call, resolved, branch

vars == <<guard, config_file, frame, tables, escaped, pc, edge, call, resolved, branch>>

(***************************************************************************)
(* Bounds of the model.                                                    *)
(***************************************************************************)
\* longest json array of country/state records a document holds
MaxRecords == 3

Workers == {"w1", "w2"}

(***************************************************************************)
(* json values (rapidjson::Value), tagged by their type.                   *)
(***************************************************************************)
Num(n) == [num |-> n]
Str(s) == [str |-> s]
Arr(s) == [arr |-> s]
Obj(f) == [obj |-> f]

\* every number of the model is far below 2^32, the other end of the uint range
IsUint(v)   == "num" \in DOMAIN v /\ v.num >= 0
IsString(v) == "str" \in DOMAIN v
IsArray(v)  == "arr" \in DOMAIN v
IsObject(v) == "obj" \in DOMAIN v

\* the outcome of an expression that may throw
Ok(v)       == [ok |-> TRUE, val |-> v]
Throw(what) == [ok |-> FALSE, what |-> what]

\* obj[name]: rapidjson asserts that obj is an object holding the member
Member(v, name) ==
  IF IsObject(v) /\ name \in DOMAIN v.obj THEN Ok(v.obj[name]) ELSE Throw("logic_error")

\* obj[name].GetUint()
GetUint(v, name) ==
  LET m == Member(v, name)
  IN  IF ~m.ok THEN m
      ELSE IF IsUint(m.val) THEN Ok(m.val.num) ELSE Throw("logic_error")

\* obj[name].GetString()
GetString(v, name) ==
  LET m == Member(v, name)
  IN  IF ~m.ok THEN m
      ELSE IF IsString(m.val) THEN Ok(m.val.str) ELSE Throw("logic_error")

(***************************************************************************)
(* SpeedTable: parse and the constructor from a json object.               *)
(* std::array<uint32_t, N> is a function on 0..N-1; a json array is a      *)
(* sequence on 1..N.                                                       *)
(***************************************************************************)
parse(obj, name, size) ==
  LET m == Member(obj, name)
  IN  IF ~m.ok THEN m
      ELSE IF ~IsArray(m.val) THEN Throw("logic_error")
      ELSE IF Len(m.val.arr) # size THEN Throw("runtime_error")
      ELSE IF \E i \in 1..size : ~IsUint(m.val.arr[i]) THEN Throw("logic_error")
      ELSE Ok([i \in 0..(size - 1) |-> m.val.arr[i + 1].num])

SpeedTable(obj) ==
  LET way          == parse(obj, "way", 8)
      link_exiting == parse(obj, "link_exiting", 5)
      link_turning == parse(obj, "link_turning", 5)
      roundabout   == parse(obj, "roundabout", 8)
      driveway     == GetUint(obj, "driveway")
      alley        == GetUint(obj, "alley")
      parking      == GetUint(obj, "parking_aisle")
      drivethru    == GetUint(obj, "drive-through")
  IN  IF ~way.ok THEN way
      ELSE IF ~link_exiting.ok THEN link_exiting
      ELSE IF ~link_turning.ok THEN link_turning
      ELSE IF ~roundabout.ok THEN roundabout
      ELSE IF ~driveway.ok THEN driveway
      ELSE IF ~alley.ok THEN alley
      ELSE IF ~parking.ok THEN parking
      ELSE IF ~drivethru.ok THEN drivethru
      ELSE Ok([way          |-> way.val,
               link_exiting |-> link_exiting.val,
               link_turning |-> link_turning.val,
               roundabout   |-> roundabout.val,
               service      |-> [i \in 0..3 |->
                                   CASE i = 0 -> driveway.val
                                     [] i = 1 -> alley.val
                                     [] i = 2 -> parking.val
                                     [] i = 3 -> drivethru.val]])

(***************************************************************************)
(* The registry: key "country.state" -> std::array<SpeedTable, 2>, a       *)
(* function on 0..1 holding the urban table at 0 and the rural one at 1.   *)
(***************************************************************************)
EmptyTables == <<>>

empty(tabs) == DOMAIN tabs = {}

\* unordered_map::emplace: a key already present keeps its value
emplace(tabs, key, value) ==
  IF key \in DOMAIN tabs THEN tabs ELSE tabs @@ (key :> value)

\* rapidjson::read_json of the file a path names
read_json(file) ==
  CASE file.kind = "missing" -> Throw("runtime_error")
    [] file.kind = "garbage" -> Ok([HasParseError |-> TRUE, value |-> Num(0)])
    [] file.kind = "json"    -> Ok([HasParseError |-> FALSE, value |-> file.value])

\* lines 93-97 of the constructor: the array to loop over, or what is thrown
OpenDocument(file) ==
  LET doc == read_json(file)
  IN  IF ~doc.ok THEN doc
      ELSE IF doc.val.HasParseError THEN Throw("runtime_error")
      ELSE IF ~IsArray(doc.val.value) THEN Throw("runtime_error")
      ELSE Ok(doc.val.value.arr)

\* LoadRecord with the two tables of the pair in the other order
LoadRecordSwapped(tabs, cs) ==
  LET country == GetString(cs, "iso3166-1")
      state   == GetString(cs, "iso3166-2")
      u       == Member(cs, "urban")
      urban   == IF u.ok THEN SpeedTable(u.val) ELSE u
      r       == Member(cs, "rural")
      rural   == IF r.ok THEN SpeedTable(r.val) ELSE r
  IN  IF ~country.ok THEN country
      ELSE IF ~state.ok THEN state
      ELSE IF ~urban.ok THEN urban
      ELSE IF ~rural.ok THEN rural
      ELSE Ok(emplace(tabs, country.val \o "." \o state.val,
                      [i \in 0..1 |-> IF i = 0 THEN rural.val ELSE urban.val]))

\* one iteration of the loop over the country/state pairs: the registry after
\* it, or what is thrown before emplace is called
LoadRecord(tabs, cs) ==
  LET country == GetString(cs, "iso3166-1")
      state   == GetString(cs, "iso3166-2")
      u       == Member(cs, "urban")
      urban   == IF u.ok THEN SpeedTable(u.val) ELSE u
      r       == Member(cs, "rural")
      rural   == IF r.ok THEN SpeedTable(r.val) ELSE r
  IN  IF ~country.ok THEN country
      ELSE IF ~state.ok THEN state
      ELSE IF ~urban.ok THEN urban
      ELSE IF ~rural.ok THEN rural
      ELSE Ok(emplace(tabs, country.val \o "." \o state.val,
                      [i \in 0..1 |-> IF i = 0 THEN urban.val ELSE rural.val]))

\* Catch with handlers that do not clear the registry
CatchKeeps(tabs, what) == [caught |-> TRUE, tables |-> tabs]

\* the two handlers of the constructor: whether what is thrown is caught, and
\* the registry the handler leaves
Catch(tabs, what) ==
  IF what \in {"runtime_error", "logic_error"}
  THEN [caught |-> TRUE, tables |-> EmptyTables]   \* catch (const std::exception& e)
  ELSE [caught |-> TRUE, tables |-> EmptyTables]   \* catch (...)

NoCall == [density |-> 0]
NoEdge == [speed |-> 0]
NoFrame == [arr |-> <<>>, i |-> 0]
NoConfig == [kind |-> "none"]

Init ==
  /\ guard = "uninit"
  /\ config_file = NoConfig
  /\ frame = NoFrame
  /\ tables = EmptyTables
  /\ escaped = FALSE
  /\ pc = [w \in Workers |-> "idle"]
  /\ edge = [w \in Workers |-> NoEdge]
  /\ call = [w \in Workers |-> NoCall]
  /\ resolved = [w \in Workers |-> FALSE]
  /\ branch = [w \in Workers |-> "none"]

\* GetInstance constructing the assigner anew on every call that finds no
\* construction under way
GetInstanceAgain(w, file) ==
  /\ pc[w] \in {"idle", "ready"}
  /\ IF guard = "running"
     THEN /\ pc' = [pc EXCEPT ![w] = "blocked"]
          /\ UNCHANGED <<guard, config_file>>
     ELSE /\ guard' = "running"
          /\ config_file' = file
          /\ pc' = [pc EXCEPT ![w] = "ctor"]
  /\ UNCHANGED <<frame, tables, escaped, edge, call, resolved, branch>>

(***************************************************************************)
(* GetInstance: the function-local static is constructed by the first      *)
(* caller; callers arriving while it is being constructed wait; every      *)
(* later caller gets the same object whatever path it passes.              *)
(***************************************************************************)
GetInstance(w, file) ==
  /\ pc[w] \in {"idle", "ready"}
  /\ CASE guard = "uninit" ->
            /\ guard' = "running"
            /\ config_file' = file
            /\ pc' = [pc EXCEPT ![w] = "ctor"]
       [] guard = "running" ->
            /\ pc' = [pc EXCEPT ![w] = "blocked"]
            /\ UNCHANGED <<guard, config_file>>
       [] guard = "done" ->
            /\ pc' = [pc EXCEPT ![w] = "ready"]
            /\ UNCHANGED <<guard, config_file>>
  /\ UNCHANGED <<frame, tables, escaped, edge, call, resolved, branch>>

\* a waiting caller returns once the static is constructed
GetInstanceWake(w) ==
  /\ pc[w] = "blocked"
  /\ guard = "done"
  /\ pc' = [pc EXCEPT ![w] = "ready"]
  /\ UNCHANGED <<guard, config_file, frame, tables, escaped, edge, call, resolved, branch>>

\* the end of a try block that threw: a handler runs and the constructor goes
\* on to its last line, or the exception leaves the constructor, and with it
\* GetInstance, the static staying unconstructed
Thrown(w, what) ==
  LET c == Catch(tables, what)
  IN  IF c.caught
      THEN /\ tables' = c.tables
           /\ pc' = [pc EXCEPT ![w] = "ctor_ret"]
           /\ UNCHANGED <<guard, escaped>>
      ELSE /\ escaped' = TRUE
           /\ guard' = "uninit"
           /\ pc' = [pc EXCEPT ![w] = "idle"]
           /\ UNCHANGED tables

\* SpeedAssigner::SpeedAssigner up to the loop
SpeedAssignerOpen(w) ==
  /\ pc[w] = "ctor"
  /\ IF config_file.kind = "none"
     THEN /\ pc' = [pc EXCEPT ![w] = "ctor_ret"]
          /\ UNCHANGED <<guard, frame, tables, escaped>>
     ELSE LET arr == OpenDocument(config_file)
          IN  IF arr.ok
              THEN /\ frame' = [arr |-> arr.val, i |-> 1]
                   /\ pc' = [pc EXCEPT ![w] = "loop"]
                   /\ UNCHANGED <<guard, tables, escaped>>
              ELSE /\ Thrown(w, arr.what)
                   /\ UNCHANGED frame
  /\ UNCHANGED <<config_file, edge, call, resolved, branch>>

\* one iteration of the loop, with the handler it may end in
SpeedAssignerRecord(w) ==
  /\ pc[w] = "loop"
  /\ frame.i <= Len(frame.arr)
  /\ LET next == LoadRecord(tables, frame.arr[frame.i])
     IN  IF next.ok
         THEN /\ tables' = next.val
              /\ frame' = [frame EXCEPT !.i = @ + 1]
              /\ UNCHANGED <<guard, escaped, pc>>
         ELSE /\ Thrown(w, next.what)
              /\ UNCHANGED frame
  /\ UNCHANGED <<config_file, edge, call, resolved, branch>>

\* the end of the constructor: the static is constructed, GetInstance returns
SpeedAssignerReturn(w) ==
  /\ \/ pc[w] = "ctor_ret"
     \/ pc[w] = "loop" /\ frame.i > Len(frame.arr)
  /\ guard' = "done"
  /\ pc' = [pc EXCEPT ![w] = "ready"]
  /\ UNCHANGED <<config_file, frame, tables, escaped, edge, call, resolved, branch>>

(***************************************************************************)
(* DirectedEdge and the enumerations of baldr the assigner reads.          *)
(* An access mask is the set of its bits; a road class is its rank.        *)
(***************************************************************************)
kVehicularAccess ==
  {"kAutoAccess", "kTruckAccess", "kMopedAccess", "kMotorcycleAccess",
   "kTaxiAccess", "kBusAccess", "kHOVAccess"}

kMotorway == 0
kTrunk == 1
kPrimary == 2

\* Surface: kPavedSmooth = 0, kPaved = 1, kPavedRough = 2, kCompacted = 3, ...
kPavedRough == 2

kParkingAisleSpeed == 15
kDrivewaySpeed == 10
kDriveThruSpeed == 20

set_speed(e, speed) == [e EXCEPT !.speed = speed]

(***************************************************************************)
(* The factors of the heuristic, as fractions.  static_cast<uint32_t>(     *)
(* speed * f + 0.5f) in float is floor(speed * f + 1/2) in exact           *)
(* arithmetic for every speed of an edge: 1.25f and 0.5f are exact; 0.8f   *)
(* and 0.85f are off by less than 3 in 10^8, the product is a multiple of  *)
(* 1/20 up to that error, and a product at k + 1/2 rounds to the float     *)
(* k + 1/2 itself.                                                         *)
(***************************************************************************)
kTurnChannelFactor == <<5, 4>>
kRampDensityFactor == <<4, 5>>
kRampFactor == <<17, 20>>
kRoundaboutFactor == <<1, 2>>

\* static_cast<uint32_t>((speed * factor) + 0.5f)
Scale(speed, factor) == (2 * speed * factor[1] + factor[2]) \div (2 * factor[2])

(***************************************************************************)
(* FromConfig                                                              *)
(***************************************************************************)
\* lines 138-139: ferries and edges without vehicular access are left alone
Excluded(e) ==
  \/ e.use = "kFerry"
  \/ e.use = "kRailFerry"
  \/ (e.forwardaccess \cup e.reverseaccess) \cap kVehicularAccess = {}

\* lines 143-149: the keys tried, in order; <<>> is tables.end()
Find(tabs, country, state) ==
  IF (country \o "." \o state) \in DOMAIN tabs THEN <<country \o "." \o state>>
  ELSE IF (country \o ".") \in DOMAIN tabs THEN <<country \o ".">>
  ELSE IF "" \in DOMAIN tabs THEN <<"">>
  ELSE <<>>

\* Bucket with the threshold one lower
BucketStrict(density) == IF density < 8 THEN 1 ELSE 0

\* line 152: the index into the pair, found->second[density <= 8]
Bucket(density) == IF density <= 8 THEN 1 ELSE 0

\* Assign with the link test ahead of the special uses
AssignLinkFirst(speed_table, e) ==
  LET rc == e.classification
  IN  IF e.link
      THEN IF rc >= 5
           THEN [resolved |-> FALSE, edge |-> e]
           ELSE IF e.sign
                THEN [resolved |-> TRUE, edge |-> set_speed(e, speed_table.link_exiting[rc])]
                ELSE [resolved |-> TRUE, edge |-> set_speed(e, speed_table.link_turning[rc])]
      ELSE CASE e.use = "kDriveway" ->
                  [resolved |-> TRUE, edge |-> set_speed(e, speed_table.service[0])]
             [] e.use = "kAlley" ->
                  [resolved |-> TRUE, edge |-> set_speed(e, speed_table.service[1])]
             [] e.use = "kParkingAisle" ->
                  [resolved |-> TRUE, edge |-> set_speed(e, speed_table.service[2])]
             [] e.use = "kDriveThru" ->
                  [resolved |-> TRUE, edge |-> set_speed(e, speed_table.service[3])]
             [] OTHER ->
                  IF e.roundabout
                  THEN [resolved |-> TRUE, edge |-> set_speed(e, speed_table.roundabout[rc])]
                  ELSE [resolved |-> TRUE, edge |-> set_speed(e, speed_table.way[rc])]

\* lines 153-194: the speed set from the chosen table
Assign(speed_table, e) ==
  LET rc == e.classification
  IN  CASE e.use = "kDriveway" ->
             [resolved |-> TRUE, edge |-> set_speed(e, speed_table.service[0])]
        [] e.use = "kAlley" ->
             [resolved |-> TRUE, edge |-> set_speed(e, speed_table.service[1])]
        [] e.use = "kParkingAisle" ->
             [resolved |-> TRUE, edge |-> set_speed(e, speed_table.service[2])]
        [] e.use = "kDriveThru" ->
             [resolved |-> TRUE, edge |-> set_speed(e, speed_table.service[3])]
        [] OTHER ->
             IF e.link
             THEN IF rc >= 5
                  THEN [resolved |-> FALSE, edge |-> e]
                  ELSE IF e.sign
                       THEN [resolved |-> TRUE,
                             edge |-> set_speed(e, speed_table.link_exiting[rc])]
                       ELSE [resolved |-> TRUE,
                             edge |-> set_speed(e, speed_table.link_turning[rc])]
             ELSE IF e.roundabout
                  THEN [resolved |-> TRUE, edge |-> set_speed(e, speed_table.roundabout[rc])]
                  ELSE [resolved |-> TRUE, edge |-> set_speed(e, speed_table.way[rc])]

FromConfig(tabs, e, density, country, state) ==
  IF Excluded(e) THEN [resolved |-> FALSE, edge |-> e]
  ELSE LET found == Find(tabs, country, state)
       IN  IF found = <<>> THEN [resolved |-> FALSE, edge |-> e]
           ELSE Assign(tabs[found[1]][Bucket(density)], e)

(***************************************************************************)
(* The heuristic of UpdateSpeed, lines 225-314.                            *)
(***************************************************************************)
\* LinkSpeed with the two ramp factors exchanged
LinkSpeedSwapped(e, density, infer_turn_channels) ==
  IF e.use = "kTurnChannel" /\ infer_turn_channels
  THEN Scale(e.speed, kTurnChannelFactor)
  ELSE IF e.use = "kRamp" /\ e.speed_type # "kTagged"
       THEN IF e.classification \in {kMotorway, kTrunk, kPrimary}
            THEN IF density > 8 THEN Scale(e.speed, kRampFactor)
                                ELSE Scale(e.speed, kRampDensityFactor)
            ELSE Scale(e.speed, kRampFactor)
       ELSE e.speed

\* lines 227-243: ramps and turn channels
LinkSpeed(e, density, infer_turn_channels) ==
  IF e.use = "kTurnChannel" /\ infer_turn_channels
  THEN Scale(e.speed, kTurnChannelFactor)
  ELSE IF e.use = "kRamp" /\ e.speed_type # "kTagged"
       THEN IF e.classification \in {kMotorway, kTrunk, kPrimary}
            THEN IF density > 8 THEN Scale(e.speed, kRampDensityFactor)
                                ELSE Scale(e.speed, kRampFactor)
            ELSE Scale(e.speed, kRampFactor)
       ELSE e.speed

\* lines 254-261: a tagged speed is reduced on rough pavement only
TaggedSpeed(e) ==
  IF e.surface >= kPavedRough
  THEN IF e.speed >= 50 THEN e.speed - 10
       ELSE IF e.speed > 15 THEN e.speed - 5
       ELSE e.speed
  ELSE e.speed

\* FerrySpeed with the first bucket closed at 2000
FerrySpeedInclusive(e) ==
  IF e.leaves_tile THEN e.speed
  ELSE IF e.length <= 2000 THEN 10
  ELSE IF e.length < 8000 THEN 20
  ELSE 30

\* lines 274-283: ferries by length, unless the leaves tile flag is set
FerrySpeed(e) ==
  IF e.leaves_tile THEN e.speed
  ELSE IF e.length < 2000 THEN 10
  ELSE IF e.length < 8000 THEN 20
  ELSE 30

\* Cumulative with the roundabout scaled before the urban speed is taken
CumulativeRoundaboutFirst(e, density, urban_rc_speed) ==
  LET e6 == IF e.roundabout THEN set_speed(e, Scale(e.speed, kRoundaboutFactor)) ELSE e
      e5 == IF density > 8 THEN set_speed(e6, urban_rc_speed[e.classification]) ELSE e6
      e7 == IF e5.use = "kParkingAisle" THEN set_speed(e5, kParkingAisleSpeed)
            ELSE IF e5.use = "kDriveway" THEN set_speed(e5, kDrivewaySpeed)
            ELSE IF e5.use = "kDriveThru" THEN set_speed(e5, kDriveThruSpeed)
            ELSE e5
      e8 == IF e7.surface >= kPavedRough THEN set_speed(e7, e7.speed \div 2) ELSE e7
  IN  e8

\* lines 290-314: the steps every other edge goes through, one after the other
Cumulative(e, density, urban_rc_speed) ==
  LET e5 == IF density > 8 THEN set_speed(e, urban_rc_speed[e.classification]) ELSE e
      e6 == IF e5.roundabout THEN set_speed(e5, Scale(e5.speed, kRoundaboutFactor)) ELSE e5
      e7 == IF e6.use = "kParkingAisle" THEN set_speed(e6, kParkingAisleSpeed)
            ELSE IF e6.use = "kDriveway" THEN set_speed(e6, kDrivewaySpeed)
            ELSE IF e6.use = "kDriveThru" THEN set_speed(e6, kDriveThruSpeed)
            ELSE e6
      e8 == IF e7.surface >= kPavedRough THEN set_speed(e7, e7.speed \div 2) ELSE e7
  IN  e8

Heuristic(e, density, urban_rc_speed, infer_turn_channels) ==
  IF e.link
  THEN [branch |-> "link", edge |-> set_speed(e, LinkSpeed(e, density, infer_turn_channels))]
  ELSE IF e.speed_type = "kTagged"
  THEN [branch |-> "tagged", edge |-> set_speed(e, TaggedSpeed(e))]
  ELSE IF e.use = "kRailFerry"
  THEN [branch |-> "rail_ferry", edge |-> set_speed(e, 65)]
  ELSE IF e.use = "kFerry"
  THEN [branch |-> "ferry", edge |-> set_speed(e, FerrySpeed(e))]
  ELSE [branch |-> "cumulative", edge |-> Cumulative(e, density, urban_rc_speed)]

(***************************************************************************)
(* UpdateSpeed, in two steps: line 222, then the heuristic if the speed    *)
(* did not come from the configuration.  pc is "returned" once the call    *)
(* is over, edge holding the edge as the call left it.                     *)
(***************************************************************************)
\* AfterConfig without the return
AfterConfigFallsThrough(res) == "heuristic"

\* lines 222-223: return when the configuration set the speed
AfterConfig(res) == IF res THEN "returned" ELSE "heuristic"

UpdateSpeed(w, e, density, urban_rc_speed, infer_turn_channels, country, state) ==
  /\ pc[w] = "ready"
  /\ LET r == IF ~empty(tables) THEN FromConfig(tables, e, density, country, state)
              ELSE [resolved |-> FALSE, edge |-> e]
     IN  /\ edge' = [edge EXCEPT ![w] = r.edge]
         /\ resolved' = [resolved EXCEPT ![w] = r.resolved]
         /\ pc' = [pc EXCEPT ![w] = AfterConfig(r.resolved)]
         /\ branch' = [branch EXCEPT ![w] = IF r.resolved THEN "config" ELSE "none"]
  /\ call' = [call EXCEPT ![w] = [edge |-> e, density |-> density,
                                  urban_rc_speed |-> urban_rc_speed,
                                  infer_turn_channels |-> infer_turn_channels,
                                  country |-> country, state |-> state]]
  /\ UNCHANGED <<guard, config_file, frame, tables, escaped>>

UpdateSpeedHeuristic(w) ==
  /\ pc[w] = "heuristic"
  /\ LET h == Heuristic(edge[w], call[w].density, call[w].urban_rc_speed,
                        call[w].infer_turn_channels)
     IN  /\ edge' = [edge EXCEPT ![w] = h.edge]
         /\ branch' = [branch EXCEPT ![w] = h.branch]
  /\ pc' = [pc EXCEPT ![w] = "returned"]
  /\ UNCHANGED <<guard, config_file, frame, tables, escaped, call, resolved>>

\* the caller takes the edge and is free to process the next one
UpdateSpeedReturn(w) ==
  /\ pc[w] = "returned"
  /\ pc' = [pc EXCEPT ![w] = "ready"]
  /\ edge' = [edge EXCEPT ![w] = NoEdge]
  /\ call' = [call EXCEPT ![w] = NoCall]
  /\ resolved' = [resolved EXCEPT ![w] = FALSE]
  /\ branch' = [branch EXCEPT ![w] = "none"]
  /\ UNCHANGED <<guard, config_file, frame, tables, escaped>>

(***************************************************************************)
(* Configuration documents.                                                *)
(***************************************************************************)
\* a table object shaped as the example of the header, its speeds offset by b
TableObj(b) ==
  Obj("way"           :> Arr([i \in 1..8 |-> Num(b + i)]) @@
      "link_exiting"  :> Arr([i \in 1..5 |-> Num(b + 8 + i)]) @@
      "link_turning"  :> Arr([i \in 1..5 |-> Num(b + 14 + i)]) @@
      "roundabout"    :> Arr([i \in 1..8 |-> Num(b + 20 + i)]) @@
      "driveway"      :> Num(b + 29) @@
      "alley"         :> Num(b + 30) @@
      "parking_aisle" :> Num(b + 31) @@
      "drive-through" :> Num(b + 32))

Record(country, state, urban, rural) ==
  Obj("iso3166-1" :> Str(country) @@ "iso3166-2" :> Str(state) @@
      "urban" :> urban @@ "rural" :> rural)

With(o, name, v) == Obj((name :> v) @@ o.obj)
Without(o, name) == Obj([n \in DOMAIN o.obj \ {name} |-> o.obj[n]])

GoodRecords ==
  { Record("us", "pa", TableObj(0), TableObj(32)),
    Record("us", "pa", TableObj(64), TableObj(96)),
    Record("us", "", TableObj(100), TableObj(132)),
    Record("", "", TableObj(200), TableObj(232)) }

BadRecords ==
  { Without(Record("us", "pa", TableObj(0), TableObj(32)), "iso3166-1"),
    With(Record("fr", "", TableObj(0), TableObj(32)), "iso3166-2", Num(7)),
    Without(Record("fr", "", TableObj(0), TableObj(32)), "rural"),
    Record("fr", "", Num(50), TableObj(32)),
    Record("fr", "", With(TableObj(0), "way", Arr([i \in 1..7 |-> Num(i)])), TableObj(32)),
    Record("fr", "", TableObj(0), With(TableObj(32), "link_turning", Arr([i \in 1..6 |-> Num(i)]))),
    Record("fr", "", TableObj(0), Without(TableObj(32), "alley")),
    Record("fr", "", With(TableObj(0), "roundabout", Arr([i \in 1..8 |-> Num(i - 2)])), TableObj(32)) }

Records == GoodRecords \cup BadRecords

JsonFile(v) == [kind |-> "json", value |-> v]

\* every document of at most MaxRecords records, and the files that hold no array
LoadFiles ==
  { NoConfig, [kind |-> "missing"], [kind |-> "garbage"],
    JsonFile(Obj("iso3166-1" :> Str("us"))), JsonFile(Num(3)) }
  \cup { JsonFile(Arr(s)) : s \in UNION { [1..n -> Records] : n \in 0..MaxRecords } }

(***************************************************************************)
(* Edges and the other arguments of UpdateSpeed.                           *)
(***************************************************************************)
Uses ==
  {"kRoad", "kRamp", "kTurnChannel", "kDriveway", "kAlley", "kParkingAisle",
   "kDriveThru", "kFerry", "kRailFerry"}

\* edges that differ in what FromConfig reads
ConfigEdges ==
  [classification : {0, 4, 5, 7}, use : Uses,
   forwardaccess : {{}, {"kAutoAccess"}},
   reverseaccess : {{"kPedestrianAccess"}, {"kPedestrianAccess", "kTruckAccess"}},
   link : BOOLEAN, roundabout : BOOLEAN, sign : BOOLEAN,
   surface : {1}, speed : {60}, speed_type : {"kClassified"},
   length : {1000}, leaves_tile : {FALSE}]

\* edges that differ in what the heuristic reads
HeuristicEdges ==
  [classification : {0, 2, 3, 7}, use : Uses \ {"kFerry"},
   forwardaccess : {{"kAutoAccess"}}, reverseaccess : {{}},
   link : BOOLEAN, roundabout : BOOLEAN, sign : {FALSE},
   surface : {1, 2, 3}, speed : {10, 55, 60, 100}, speed_type : {"kTagged", "kClassified"},
   length : {1000}, leaves_tile : {FALSE}]

FerryEdges ==
  [classification : {0, 3}, use : {"kFerry"},
   forwardaccess : {{"kAutoAccess"}}, reverseaccess : {{}},
   link : BOOLEAN, roundabout : {FALSE}, sign : {FALSE},
   surface : {1, 2}, speed : {10, 60}, speed_type : {"kTagged", "kClassified"},
   length : {1000, 1999, 2000, 5000, 7999, 8000, 10000}, leaves_tile : BOOLEAN]

\* the caller's default urban speeds by road class
UrbanSpeeds == [rc \in 0..7 |-> CASE rc = 0 -> 89 [] rc = 1 -> 73 [] rc = 2 -> 57
                                  [] rc = 3 -> 50 [] rc = 4 -> 41 [] rc = 5 -> 35
                                  [] rc = 6 -> 30 [] rc = 7 -> 25]

Densities == {5, 8, 9, 20}

\* country and state codes of the end node: known, partly known, unknown
Admins == {<<"us", "pa">>, <<"us", "ca">>, <<"fr", "">>, <<"", "">>}

EdgeFiles ==
  { NoConfig,
    JsonFile(Arr(<<Record("us", "pa", TableObj(0), TableObj(32)),
                   Record("us", "", TableObj(100), TableObj(132)),
                   Record("", "", TableObj(200), TableObj(232))>>)),
    JsonFile(Arr(<<Record("us", "pa", TableObj(0), TableObj(32))>>)),
    JsonFile(Arr(<<Record("us", "", TableObj(100), TableObj(132))>>)) }

NextEdge ==
  \/ \E file \in EdgeFiles : GetInstance("w1", file)
  \/ SpeedAssignerOpen("w1")
  \/ SpeedAssignerRecord("w1")
  \/ SpeedAssignerReturn("w1")
  \/ /\ pc["w1"] = "ready"
     /\ \E e \in ConfigEdges, density \in Densities, a \in Admins :
          UpdateSpeed("w1", e, density, UrbanSpeeds, TRUE, a[1], a[2])
  \/ /\ pc["w1"] = "ready"
     /\ \E e \in HeuristicEdges \cup FerryEdges, density \in Densities, infer \in BOOLEAN :
          UpdateSpeed("w1", e, density, UrbanSpeeds, infer, "us", "pa")
  \/ UpdateSpeedHeuristic("w1")
  \/ UpdateSpeedReturn("w1")

SpecEdge == Init /\ [][NextEdge]_vars

\* the first call of GetInstance, with any file, and the constructor it runs
NextLoad ==
  \/ /\ guard = "uninit"
     /\ \E file \in LoadFiles : GetInstance("w1", file)
  \/ SpeedAssignerOpen("w1")
  \/ SpeedAssignerRecord("w1")
  \/ SpeedAssignerReturn("w1")

SpecLoad == Init /\ [][NextLoad]_vars

(***************************************************************************)
(* The workers of the graph build: any number of GetInstance and           *)
(* UpdateSpeed calls, interleaved.                                         *)
(***************************************************************************)
FewFiles ==
  { NoConfig,
    JsonFile(Arr(<<Record("us", "pa", TableObj(0), TableObj(32)),
                   Record("us", "", TableObj(100), TableObj(132))>>)),
    JsonFile(Arr(<<Record("", "", TableObj(200), TableObj(232)),
                   Without(Record("us", "pa", TableObj(0), TableObj(32)), "rural")>>)) }

FewEdges ==
  [classification : {0, 5}, use : {"kRamp"},
   forwardaccess : {{"kAutoAccess"}}, reverseaccess : {{}},
   link : BOOLEAN, roundabout : BOOLEAN, sign : {FALSE},
   surface : {1}, speed : {60}, speed_type : {"kClassified"},
   length : {1000}, leaves_tile : {FALSE}]

Next ==
  \E w \in Workers :
    \/ \E file \in FewFiles : GetInstance(w, file)
    \/ GetInstanceWake(w)
    \/ SpeedAssignerOpen(w)
    \/ SpeedAssignerRecord(w)
    \/ SpeedAssignerReturn(w)
    \/ /\ pc[w] = "ready"
       /\ \E e \in FewEdges, density \in {8, 9}, a \in {<<"us", "pa">>, <<"fr", "">>} :
            UpdateSpeed(w, e, density, UrbanSpeeds, TRUE, a[1], a[2])
    \/ UpdateSpeedHeuristic(w)
    \/ UpdateSpeedReturn(w)

Spec == Init /\ [][Next]_vars

(***************************************************************************)
(* What the properties below say about a document, stated on the json      *)
(* itself and not through the parser.                                      *)
(***************************************************************************)
UintArray(v, n) ==
  /\ IsArray(v)
  /\ Len(v.arr) = n
  /\ \A i \in 1..n : IsUint(v.arr[i])

WellFormedTable(t) ==
  /\ IsObject(t)
  /\ {"way", "link_exiting", "link_turning", "roundabout", "driveway", "alley",
      "parking_aisle", "drive-through"} \subseteq DOMAIN t.obj
  /\ UintArray(t.obj["way"], 8)
  /\ UintArray(t.obj["link_exiting"], 5)
  /\ UintArray(t.obj["link_turning"], 5)
  /\ UintArray(t.obj["roundabout"], 8)
  /\ \A n \in {"driveway", "alley", "parking_aisle", "drive-through"} : IsUint(t.obj[n])

WellFormedRecord(r) ==
  /\ IsObject(r)
  /\ {"iso3166-1", "iso3166-2", "urban", "rural"} \subseteq DOMAIN r.obj
  /\ IsString(r.obj["iso3166-1"])
  /\ IsString(r.obj["iso3166-2"])
  /\ WellFormedTable(r.obj["urban"])
  /\ WellFormedTable(r.obj["rural"])

IsDocument(file) == file.kind = "json" /\ IsArray(file.value)

WellFormed(file) ==
  /\ IsDocument(file)
  /\ \A i \in 1..Len(file.value.arr) : WellFormedRecord(file.value.arr[i])

Malformed(file) == file.kind # "none" /\ ~WellFormed(file)

KeyOf(r) == r.obj["iso3166-1"].str \o "." \o r.obj["iso3166-2"].str

\* a SpeedTable equals, field for field, the json object it was read from
SameTable(table, t) ==
  /\ DOMAIN table.way = 0..7 /\ DOMAIN table.roundabout = 0..7
  /\ DOMAIN table.link_exiting = 0..4 /\ DOMAIN table.link_turning = 0..4
  /\ DOMAIN table.service = 0..3
  /\ \A i \in 0..7 : /\ table.way[i] = t.obj["way"].arr[i + 1].num
                     /\ table.roundabout[i] = t.obj["roundabout"].arr[i + 1].num
  /\ \A i \in 0..4 : /\ table.link_exiting[i] = t.obj["link_exiting"].arr[i + 1].num
                     /\ table.link_turning[i] = t.obj["link_turning"].arr[i + 1].num
  /\ table.service[0] = t.obj["driveway"].num
  /\ table.service[1] = t.obj["alley"].num
  /\ table.service[2] = t.obj["parking_aisle"].num
  /\ table.service[3] = t.obj["drive-through"].num

\* the registry entry of r's key holds r's urban and rural tables
RoundTrips(r) ==
  /\ KeyOf(r) \in DOMAIN tables
  /\ SameTable(tables[KeyOf(r)][0], r.obj["urban"])
  /\ SameTable(tables[KeyOf(r)][1], r.obj["rural"])

Constructed == guard = "done"

(***************************************************************************)
(* C1: constructing the assigner from a malformed document (a wrong array  *)
(* length, a missing field, unparsable syntax, no array at the top, no     *)
(* file) leaves the registry empty and no exception leaves the             *)
(* constructor, also when the failure comes after well-formed records.     *)
(***************************************************************************)
C1_MalformedLeavesEmpty ==
  /\ ~escaped
  /\ Constructed /\ Malformed(config_file) => empty(tables)

\* a document whose second record fails after the first one was inserted
C1_Witness ==
  /\ Constructed
  /\ IsDocument(config_file)
  /\ Len(config_file.value.arr) = 2
  /\ WellFormedRecord(config_file.value.arr[1])
  /\ ~WellFormedRecord(config_file.value.arr[2])
  /\ frame.i = 2
  /\ empty(tables)

(***************************************************************************)
(* C2 as stated: for every well-formed document the registry has as many   *)
(* entries as the document has records, and the key of each record looks   *)
(* up tables equal field for field to that record's urban and rural.       *)
(***************************************************************************)
C2_OneEntryPerRecord ==
  Constructed /\ WellFormed(config_file) =>
    /\ Cardinality(DOMAIN tables) = Len(config_file.value.arr)
    /\ \A i \in 1..Len(config_file.value.arr) : RoundTrips(config_file.value.arr[i])

\* the first record of the document that has the key of record i
FirstWithKey(arr, i) ==
  arr[CHOOSE j \in 1..i : /\ KeyOf(arr[j]) = KeyOf(arr[i])
                          /\ \A k \in 1..(j - 1) : KeyOf(arr[k]) # KeyOf(arr[i])]

(***************************************************************************)
(* C2 amended: for every well-formed document the registry has as many     *)
(* entries as the document has distinct keys (as many as it has records    *)
(* when no two records share a key), and the key of each record looks up   *)
(* tables equal field for field to the urban and rural of the first        *)
(* record that has that key.                                               *)
(***************************************************************************)
C2_OneEntryPerKey ==
  Constructed /\ WellFormed(config_file) =>
    LET arr == config_file.value.arr
    IN  /\ Cardinality(DOMAIN tables) = Cardinality({KeyOf(arr[i]) : i \in 1..Len(arr)})
        /\ \A i \in 1..Len(arr) : RoundTrips(FirstWithKey(arr, i))

\* two records with different keys, both in the registry
C2_Witness ==
  /\ Constructed
  /\ WellFormed(config_file)
  /\ Len(config_file.value.arr) = 2
  /\ KeyOf(config_file.value.arr[1]) # KeyOf(config_file.value.arr[2])
  /\ Cardinality(DOMAIN tables) = 2

(***************************************************************************)
(* What the properties below say about a call of UpdateSpeed, stated on    *)
(* the document the registry was loaded from.                              *)
(***************************************************************************)
\* worker w is in a call that got past line 222 with a loaded registry: edge[w]
\* is the edge as FromConfig left it
FromConfigDone(w) ==
  /\ call[w] # NoCall
  /\ ~empty(tables)
  /\ pc[w] = "heuristic" \/ (pc[w] = "returned" /\ resolved[w])

\* worker w's call of UpdateSpeed is over
Returned(w) == call[w] # NoCall /\ pc[w] = "returned"

\* the heuristic ran in w's finished call
RanHeuristic(w) == branch[w] \in {"link", "tagged", "rail_ferry", "ferry", "cumulative"}

Document == IF IsDocument(config_file) THEN config_file.value.arr ELSE <<>>

HasRecord(country, state) ==
  \E i \in 1..Len(Document) :
    /\ Document[i].obj["iso3166-1"].str = country
    /\ Document[i].obj["iso3166-2"].str = state

RecordOf(country, state) ==
  Document[CHOOSE i \in 1..Len(Document) :
             /\ Document[i].obj["iso3166-1"].str = country
             /\ Document[i].obj["iso3166-2"].str = state
             /\ \A j \in 1..(i - 1) : KeyOf(Document[j]) # KeyOf(Document[i])]

\* the record configured for the country and state, else for the country
Configured(country, state) ==
  IF HasRecord(country, state) THEN <<RecordOf(country, state)>>
  ELSE IF HasRecord(country, "") THEN <<RecordOf(country, "")>>
  ELSE <<>>

\* the same, ending in the global default: the record of no country and no state
ConfiguredOrDefault(country, state) ==
  IF Configured(country, state) # <<>> THEN Configured(country, state)
  ELSE IF HasRecord("", "") THEN <<RecordOf("", "")>>
  ELSE <<>>

BucketName(density) == IF density <= 8 THEN "rural" ELSE "urban"

NoVehicle(e) ==
  /\ e.forwardaccess \cap kVehicularAccess = {}
  /\ e.reverseaccess \cap kVehicularAccess = {}

Guarded(e) == e.use \in {"kFerry", "kRailFerry"} \/ NoVehicle(e)

\* the speed a table object of the document gives an edge, <<>> when it has none
TableSpeed(t, e) ==
  CASE e.use = "kDriveway"     -> <<t.obj["driveway"].num>>
    [] e.use = "kAlley"        -> <<t.obj["alley"].num>>
    [] e.use = "kParkingAisle" -> <<t.obj["parking_aisle"].num>>
    [] e.use = "kDriveThru"    -> <<t.obj["drive-through"].num>>
    [] OTHER ->
         IF e.link
         THEN IF e.classification >= 5 THEN <<>>
              ELSE IF e.sign THEN <<t.obj["link_exiting"].arr[e.classification + 1].num>>
                   ELSE <<t.obj["link_turning"].arr[e.classification + 1].num>>
         ELSE IF e.roundabout THEN <<t.obj["roundabout"].arr[e.classification + 1].num>>
              ELSE <<t.obj["way"].arr[e.classification + 1].num>>

\* edge[w] is the edge passed in but for its speed
OnlySpeed(w, speed) == edge[w] = [call[w].edge EXCEPT !.speed = speed]

C4_DensityBucket ==
  \A w \in Workers :
    FromConfigDone(w) /\ resolved[w] =>
      LET rec == Configured(call[w].country, call[w].state)
          e == call[w].edge
      IN  /\ rec # <<>>
          /\ call[w].density <= 8 => edge[w].speed = TableSpeed(rec[1].obj["rural"], e)[1]
          /\ call[w].density >= 9 => edge[w].speed = TableSpeed(rec[1].obj["urban"], e)[1]

\* a call with density 8 that took the rural speed, which is not the urban one
C4_Witness ==
  /\ FromConfigDone("w1") /\ resolved["w1"]
  /\ call["w1"].density = 8
  /\ call["w1"].edge.use = "kRoad" /\ ~call["w1"].edge.link /\ ~call["w1"].edge.roundabout
  /\ call["w1"].country = "us" /\ call["w1"].state = "pa" /\ HasRecord("us", "pa")
  /\ edge["w1"].speed = 33 + call["w1"].edge.classification

(***************************************************************************)
(* C5: when the registry is not empty and FromConfig sets the speed, the   *)
(* edge leaves UpdateSpeed with exactly the speed of the table and the     *)
(* heuristic has not run; the heuristic runs if and only if the registry   *)
(* is empty or FromConfig returned false.                                  *)
(***************************************************************************)
C5_ExclusivePolicies ==
  \A w \in Workers :
    Returned(w) =>
      /\ resolved[w] =>
           LET rec == Configured(call[w].country, call[w].state)
           IN  /\ ~empty(tables)
               /\ rec # <<>>
               /\ OnlySpeed(w, TableSpeed(rec[1].obj[BucketName(call[w].density)],
                                          call[w].edge)[1])
      /\ RanHeuristic(w) <=> (empty(tables) \/ ~resolved[w])

\* a roundabout in a dense area, left at the speed of the table: the heuristic
\* would have made it half the caller's urban speed
C5_Witness ==
  /\ Returned("w1") /\ resolved["w1"] /\ ~empty(tables)
  /\ call["w1"].edge.roundabout /\ ~call["w1"].edge.link /\ call["w1"].edge.use = "kRoad"
  /\ call["w1"].density = 20
  /\ HasRecord("us", "pa") /\ call["w1"].country = "us" /\ call["w1"].state = "pa"
  /\ edge["w1"].speed = 21 + call["w1"].edge.classification

\* the speed of a ferry by its length
FerryBucket(length) == IF length < 2000 THEN 10 ELSE IF length < 8000 THEN 20 ELSE 30

(***************************************************************************)
(* C6 as stated: an edge whose use is ferry leaves UpdateSpeed with 10,    *)
(* 20 or 30 by its length (< 2000, < 8000, the rest) when the leaves tile  *)
(* flag is not set, and with its speed untouched when the flag is set.     *)
(***************************************************************************)
C6_FerryByLength ==
  \A w \in Workers :
    Returned(w) /\ call[w].edge.use = "kFerry" =>
      IF call[w].edge.leaves_tile
      THEN edge[w] = call[w].edge
      ELSE OnlySpeed(w, FerryBucket(call[w].edge.length))

(***************************************************************************)
(* C6 amended: the same, for an edge whose use is ferry, that is not a     *)
(* link and whose speed is not tagged.                                     *)
(***************************************************************************)
C6_FerryByLengthUntagged ==
  \A w \in Workers :
    /\ Returned(w) /\ call[w].edge.use = "kFerry"
    /\ ~call[w].edge.link /\ call[w].edge.speed_type # "kTagged"
    => IF call[w].edge.leaves_tile
       THEN edge[w] = call[w].edge
       ELSE OnlySpeed(w, FerryBucket(call[w].edge.length))

\* a ferry of length 2000, at the lower end of the middle bucket
C6_Witness ==
  /\ Returned("w1") /\ call["w1"].edge.use = "kFerry"
  /\ ~call["w1"].edge.link /\ call["w1"].edge.speed_type # "kTagged"
  /\ ~call["w1"].edge.leaves_tile
  /\ call["w1"].edge.length = 2000
  /\ edge["w1"].speed = 20

\* speed * percent / 100, to the nearest integer, halves up
Percent(speed, percent) == (speed * percent + 50) \div 100

(***************************************************************************)
(* C7: a link edge the heuristic handles ends in the link branch: a turn   *)
(* channel with inference gets 1.25 times its speed; else a ramp whose     *)
(* speed is not tagged gets 0.8 times when motorway, trunk or primary and  *)
(* density > 8, and 0.85 times otherwise; any other link keeps its speed.  *)
(* No later step of the heuristic touches it.                              *)
(***************************************************************************)
C7_LinkBranch ==
  \A w \in Workers :
    Returned(w) /\ RanHeuristic(w) /\ call[w].edge.link =>
      LET e == call[w].edge
      IN  /\ branch[w] = "link"
          /\ OnlySpeed(w,
               IF e.use = "kTurnChannel" /\ call[w].infer_turn_channels
               THEN Percent(e.speed, 125)
               ELSE IF e.use = "kRamp" /\ e.speed_type # "kTagged"
                    THEN IF e.classification \in {0, 1, 2} /\ call[w].density > 8
                         THEN Percent(e.speed, 80)
                         ELSE Percent(e.speed, 85)
                    ELSE e.speed)

\* a motorway ramp of speed 100 on a rough roundabout in a dense area: 80
C7_Witness ==
  /\ Returned("w1") /\ RanHeuristic("w1")
  /\ call["w1"].edge.link /\ call["w1"].edge.use = "kRamp"
  /\ call["w1"].edge.speed_type # "kTagged"
  /\ call["w1"].edge.classification = 0
  /\ call["w1"].edge.speed = 100
  /\ call["w1"].density = 9
  /\ call["w1"].edge.roundabout /\ call["w1"].edge.surface >= 2
  /\ edge["w1"].speed = 80

(***************************************************************************)
(* C9: when the edge is no link, its speed is not tagged and it is no      *)
(* ferry, the heuristic applies in this order, each to the speed the one   *)
(* before left: density > 8 takes the caller's urban speed of the class;   *)
(* a roundabout halves it, to the nearest; a parking aisle, driveway or    *)
(* drive-through takes its constant; a surface from rough paved on halves  *)
(* it, rounding down.  Speed 60, density 20, urban speed 50, roundabout:   *)
(* 25.                                                                     *)
(***************************************************************************)
C9_CumulativeSteps ==
  \A w \in Workers :
    /\ Returned(w) /\ RanHeuristic(w)
    /\ ~call[w].edge.link /\ call[w].edge.speed_type # "kTagged"
    /\ call[w].edge.use \notin {"kFerry", "kRailFerry"}
    => LET e  == call[w].edge
           s5 == IF call[w].density > 8 THEN call[w].urban_rc_speed[e.classification]
                 ELSE e.speed
           s6 == IF e.roundabout THEN Percent(s5, 50) ELSE s5
           s7 == CASE e.use = "kParkingAisle" -> kParkingAisleSpeed
                   [] e.use = "kDriveway"     -> kDrivewaySpeed
                   [] e.use = "kDriveThru"    -> kDriveThruSpeed
                   [] OTHER                   -> s6
           s8 == IF e.surface >= 2 THEN s7 \div 2 ELSE s7
       IN  branch[w] = "cumulative" /\ OnlySpeed(w, s8)

\* the example: 60, density 20, urban speed 50, roundabout, smooth: 25
C9_Witness ==
  /\ Returned("w1") /\ RanHeuristic("w1")
  /\ ~call["w1"].edge.link /\ call["w1"].edge.speed_type # "kTagged"
  /\ call["w1"].edge.use = "kRoad"
  /\ call["w1"].edge.speed = 60
  /\ call["w1"].density = 20
  /\ call["w1"].urban_rc_speed[call["w1"].edge.classification] = 50
  /\ call["w1"].edge.roundabout /\ call["w1"].edge.surface < 2
  /\ edge["w1"].speed = 25

(***************************************************************************)
(* C10: FromConfig decides in this order, the first that applies being     *)
(* final: a ferry, a rail ferry or an edge with no vehicular access in     *)
(* either direction is left alone and not resolved, whatever the registry  *)
(* holds; then, in the bucket of the record found, a driveway, alley,      *)
(* parking aisle or drive-through gets its service speed, link or          *)
(* roundabout or not; a link of class rank >= 5 is left alone and not      *)
(* resolved, any other link gets link_exiting with exit signs and          *)
(* link_turning without; a roundabout gets roundabout; any other edge way. *)
(***************************************************************************)
C10_AssignmentOrder ==
  \A w \in Workers :
    FromConfigDone(w) =>
      LET e == call[w].edge
          rec == Configured(call[w].country, call[w].state)
      IN  IF Guarded(e)
          THEN ~resolved[w] /\ edge[w] = e
          ELSE rec # <<>> =>
                 LET speed == TableSpeed(rec[1].obj[BucketName(call[w].density)], e)
                 IN  IF speed = <<>>
                     THEN ~resolved[w] /\ edge[w] = e
                     ELSE resolved[w] /\ OnlySpeed(w, speed[1])

\* a driveway that is a signed link on a roundabout, of class rank 5: service[0]
C10_Witness ==
  /\ FromConfigDone("w1") /\ resolved["w1"]
  /\ call["w1"].edge.use = "kDriveway"
  /\ call["w1"].edge.link /\ call["w1"].edge.roundabout /\ call["w1"].edge.sign
  /\ call["w1"].edge.classification = 5
  /\ call["w1"].density = 9
  /\ call["w1"].country = "us" /\ call["w1"].state = "pa" /\ HasRecord("us", "pa")
  /\ edge["w1"].speed = 29

\* UpdateSpeed run alone, start to end, on a registry
Alone(tabs, c) ==
  LET r == IF ~empty(tabs) THEN FromConfig(tabs, c.edge, c.density, c.country, c.state)
           ELSE [resolved |-> FALSE, edge |-> c.edge]
  IN  IF r.resolved THEN r.edge
      ELSE Heuristic(r.edge, c.density, c.urban_rc_speed, c.infer_turn_channels).edge

(***************************************************************************)
(* C8: the registry is built once and only read afterwards: once the       *)
(* first GetInstance has returned, no step of any worker, a GetInstance    *)
(* with another path included, constructs it again or changes it; every    *)
(* UpdateSpeed returns the edge it would return run alone, which is the    *)
(* edge passed in but for its speed, and no worker's edge changes in a     *)
(* step of another worker.                                                 *)
(***************************************************************************)
C8_BuiltOnceReadOnly ==
  [][Constructed =>
       /\ Constructed'
       /\ tables' = tables
       /\ config_file' = config_file
       /\ \A w \in Workers :
            /\ edge'[w] # edge[w] => pc'[w] # pc[w]
            /\ Returned(w)' =>
                 /\ edge'[w] = Alone(tables, call'[w])
                 /\ edge'[w] = [call'[w].edge EXCEPT !.speed = edge'[w].speed]]_vars

\* both workers inside UpdateSpeed on a loaded registry
C8_Witness ==
  /\ Constructed /\ ~empty(tables)
  /\ Returned("w1") /\ resolved["w1"]
  /\ pc["w2"] = "heuristic"

====
